---- MODULE Spec2Model ----
(***************************************************************************)
(* Filipino verification bot (src/main.py): the SQLite tables kept by      *)
(* DatabaseManager, the PhoneVerifier classifier, the update handlers of   *)
(* FilipinoBotManager and its background reminder sweep.                   *)
(*                                                                         *)
(* Time is counted in units of six hours.  clock is the UTC time; the      *)
(* code stamps rows with datetime.now() (naive local time, clock + tz) and *)
(* the sweep query compares them with SQLite's datetime('now', ...), which *)
(* is UTC.  Stored stamps carry microseconds and the SQL bound does not,   *)
(* so the text comparison "stamp < bound" is a strict one.                 *)
(*                                                                         *)
(* The columns request_date, attempt_date, username and first_name are     *)
(* written but never read by any decision and are left out of the rows.    *)
(***************************************************************************)
EXTENDS Integers, Sequences, FiniteSets

\* ------------------------------------------------------------- constants

ADMIN_ID == 1                  \* int(os.getenv('ADMIN_ID')), any non-zero id
Users == {1, 2}                \* accounts of people: the admin and a member
Members == Users \ {ADMIN_ID}  \* accounts that use the member commands and share contacts
BotAccounts == {3}             \* accounts whose from_user.is_bot is set
UserIds == Users \cup BotAccounts         \* ids that can occur in an update
ContactOwners == Users \cup {0}           \* contact.user_id; 0: the contact is no account
Chats == {1}

Day == 4                       \* '-24 hours', in units of six hours
SweepInterval == 1             \* asyncio.sleep(21600), in units of six hours
MaxReminders == 3              \* rn.reminder_count < 3

TickStep == 3                  \* the clock is read every 18 hours
MaxTime == 6                   \* the clock stops here
MaxAttempts == 2               \* rows of verification_attempts
LegacyAge == 7                 \* age of the rows an existing database file holds
TZOffsets == {0 - 2, 0}        \* local time minus UTC: a server at UTC-12, one at UTC

VARIABLES clock, tz, verified_users, join_requests, reminder_notifications, verification_attempts, incomplete_users, sweep_pc, slept, reply

vars == <<clock, tz, verified_users, join_requests, reminder_notifications, verification_attempts, incomplete_users, sweep_pc, slept, reply>>

\* A table is a function from the primary keys present to their rows.
Upsert(table, key, row) == [k \in DOMAIN table \cup {key} |-> IF k = key THEN row ELSE table[k]]

\* ------------------------------------------------------- DatabaseManager

\* a row that keeps the date of the database's first day
VerifiedRow_StaleDate(phone_number, now) == [phone_number |-> phone_number, verified_date |-> 0 - LegacyAge, is_banned |-> FALSE]

\* INSERT OR REPLACE INTO verified_users ... VALUES (?, ?, ?, ?, now, FALSE)
VerifiedRow(phone_number, now) == [phone_number |-> phone_number, verified_date |-> now, is_banned |-> FALSE]

\* an insert that overwrites the newest row
add_verification_attempt_Overwrites(va, user_id, phone_number, success, error_message) == IF va = <<>> THEN <<[user_id |-> user_id, phone_number |-> phone_number, success |-> success, error_message |-> error_message]>> ELSE [va EXCEPT ![Len(va)] = [user_id |-> user_id, phone_number |-> phone_number, success |-> success, error_message |-> error_message]]

\* INSERT INTO verification_attempts (user_id, attempt_date, phone_number, success[, error_message])
add_verification_attempt(va, user_id, phone_number, success, error_message) == Append(va, [user_id |-> user_id, phone_number |-> phone_number, success |-> success, error_message |-> error_message])

\* an upsert that keeps the is_banned of the row it replaces
add_verified_user_vu_KeepsBan(vu, user_id, phone_number, now) == Upsert(vu, user_id, [phone_number |-> phone_number, verified_date |-> now, is_banned |-> (user_id \in DOMAIN vu /\ vu[user_id].is_banned)])

\* add_verified_user: the verified_users table after the upsert ...
add_verified_user_vu(vu, user_id, phone_number, now) == Upsert(vu, user_id, VerifiedRow(phone_number, now))

\* ... and the verification_attempts table after the success row it inserts
add_verified_user_va(va, user_id, phone_number) == add_verification_attempt(va, user_id, phone_number, TRUE, "NULL")

\* a lookup that forgets the is_banned = FALSE condition
is_verified_IgnoresBan(vu, user_id) == user_id \in DOMAIN vu

\* SELECT user_id FROM verified_users WHERE user_id = ? AND is_banned = FALSE
is_verified(vu, user_id) == user_id \in DOMAIN vu /\ ~vu[user_id].is_banned

\* a ban that deletes the row
ban_user_Deletes(vu, user_id) == [k \in DOMAIN vu \ {user_id} |-> vu[k]]

\* a ban that also wipes the phone number
ban_user_ClearsPhone(vu, user_id) == [k \in DOMAIN vu |-> IF k = user_id THEN [vu[k] EXCEPT !.is_banned = TRUE, !.phone_number = <<>>] ELSE vu[k]]

\* a ban that writes a row when there is none
ban_user_Inserts(vu, user_id) == IF user_id \in DOMAIN vu THEN [vu EXCEPT ![user_id].is_banned = TRUE] ELSE Upsert(vu, user_id, [phone_number |-> <<>>, verified_date |-> 0, is_banned |-> TRUE])

\* UPDATE verified_users SET is_banned = TRUE WHERE user_id = ?
ban_user(vu, user_id) == [k \in DOMAIN vu |-> IF k = user_id THEN [vu[k] EXCEPT !.is_banned = TRUE] ELSE vu[k]]

\* INSERT OR IGNORE: a row on file keeps its status
add_join_request_KeepsStatus(jr, user_id, chat_id) == IF <<user_id, chat_id>> \in DOMAIN jr THEN jr ELSE Upsert(jr, <<user_id, chat_id>>, [status |-> "pending"])

\* INSERT OR REPLACE INTO join_requests ... VALUES (?, ?, now, 'pending')
add_join_request(jr, user_id, chat_id) == Upsert(jr, <<user_id, chat_id>>, [status |-> "pending"])

\* a status update that is lost
update_join_request_status_Lost(jr, user_id, chat_id, status) == jr

\* UPDATE join_requests SET status = ? WHERE user_id = ? AND chat_id = ?
update_join_request_status(jr, user_id, chat_id, status) == [k \in DOMAIN jr |-> IF k = <<user_id, chat_id>> THEN [jr[k] EXCEPT !.status = status] ELSE jr[k]]

\* a lookup that never finds the row
has_received_reminder_Never(rn, user_id) == FALSE

\* SELECT user_id FROM reminder_notifications WHERE user_id = ?
has_received_reminder(rn, user_id) == user_id \in DOMAIN rn

\* INSERT OR REPLACE ... (user_id, first_reminder_date, reminder_count,
\* last_activity_date, last_reminder_date) VALUES (?, now, 1, now, now):
\* the two columns left out take their defaults, FALSE
add_reminder_notification(rn, user_id, now) == Upsert(rn, user_id, [first_reminder_date |-> now, reminder_count |-> 1, last_activity_date |-> now, last_reminder_date |-> now, verification_started |-> FALSE, reminder_paused |-> FALSE])

\* COALESCE((SELECT column FROM reminder_notifications WHERE user_id = ?), default).
\* No statement stores NULL in a column of the table, so the subquery is NULL
\* exactly when the row is absent.
Coalesce(rn, user_id, column, default) == IF user_id \in DOMAIN rn THEN rn[user_id][column] ELSE default

\* an activity update that is lost
update_user_activity_Lost(rn, user_id, now) == rn

\* an activity update that rewrites reminder_paused with the column default
update_user_activity_Unpauses(rn, user_id, now) == Upsert(rn, user_id, [first_reminder_date |-> Coalesce(rn, user_id, "first_reminder_date", now), reminder_count |-> Coalesce(rn, user_id, "reminder_count", 0), last_activity_date |-> now, last_reminder_date |-> Coalesce(rn, user_id, "last_reminder_date", now), verification_started |-> Coalesce(rn, user_id, "verification_started", FALSE), reminder_paused |-> FALSE])

\* INSERT OR REPLACE without the COALESCE subqueries: a fresh row every time
update_user_activity_Replaces(rn, user_id, now) == Upsert(rn, user_id, [first_reminder_date |-> now, reminder_count |-> 0, last_activity_date |-> now, last_reminder_date |-> now, verification_started |-> FALSE, reminder_paused |-> FALSE])

\* INSERT OR REPLACE with every column but last_activity_date carried over
update_user_activity(rn, user_id, now) == Upsert(rn, user_id, [first_reminder_date |-> Coalesce(rn, user_id, "first_reminder_date", now), reminder_count |-> Coalesce(rn, user_id, "reminder_count", 0), last_activity_date |-> now, last_reminder_date |-> Coalesce(rn, user_id, "last_reminder_date", now), verification_started |-> Coalesce(rn, user_id, "verification_started", FALSE), reminder_paused |-> Coalesce(rn, user_id, "reminder_paused", FALSE)])

\* a statement that also counts the command as a reminder
mark_verification_started_Counts(rn, user_id, now) == Upsert(rn, user_id, [first_reminder_date |-> Coalesce(rn, user_id, "first_reminder_date", now), reminder_count |-> Coalesce(rn, user_id, "reminder_count", 0) + 1, last_activity_date |-> now, last_reminder_date |-> Coalesce(rn, user_id, "last_reminder_date", now), verification_started |-> TRUE, reminder_paused |-> Coalesce(rn, user_id, "reminder_paused", FALSE)])

\* the same statement with verification_started = TRUE
mark_verification_started(rn, user_id, now) == Upsert(rn, user_id, [first_reminder_date |-> Coalesce(rn, user_id, "first_reminder_date", now), reminder_count |-> Coalesce(rn, user_id, "reminder_count", 0), last_activity_date |-> now, last_reminder_date |-> Coalesce(rn, user_id, "last_reminder_date", now), verification_started |-> TRUE, reminder_paused |-> Coalesce(rn, user_id, "reminder_paused", FALSE)])

\* the WHERE clause without reminder_count < 3
IsIncomplete_NoCap(rn, vu, user_id, utcnow) ==
    /\ (user_id \notin DOMAIN vu \/ vu[user_id].is_banned)
    /\ rn[user_id].last_activity_date < utcnow - Day
    /\ rn[user_id].first_reminder_date < utcnow - Day
    /\ rn[user_id].reminder_paused = FALSE
    /\ rn[user_id].last_reminder_date < utcnow - Day

\* The WHERE clause of get_incomplete_verifications for one row; utcnow is
\* SQLite's datetime('now'), the stamps are those datetime.now() stored.
IsIncomplete(rn, vu, user_id, utcnow) ==
    /\ (user_id \notin DOMAIN vu \/ vu[user_id].is_banned)
    /\ rn[user_id].last_activity_date < utcnow - Day
    /\ rn[user_id].reminder_count < MaxReminders
    /\ rn[user_id].first_reminder_date < utcnow - Day
    /\ rn[user_id].reminder_paused = FALSE
    /\ rn[user_id].last_reminder_date < utcnow - Day

\* the user ids the query returns
SelectedUsers(rn, vu, utcnow) == {u \in DOMAIN rn : IsIncomplete(rn, vu, u, utcnow)}

\* a set of user ids in rowid (= user_id) order
RECURSIVE InRowidOrder(_)
InRowidOrder(ids) == IF ids = {} THEN <<>> ELSE LET m == CHOOSE x \in ids : \A y \in ids : x <= y IN <<m>> \o InRowidOrder(ids \ {m})

\* cursor.fetchall(): the rows (user_id, first_reminder_date, reminder_count,
\* last_activity_date) as read at the time of the query; the sweep unpacks the
\* two dates and never uses them, so a row keeps user_id and reminder_count
get_incomplete_verifications(rn, vu, utcnow) == LET ids == InRowidOrder(SelectedUsers(rn, vu, utcnow)) IN [i \in 1..Len(ids) |-> [user_id |-> ids[i], reminder_count |-> rn[ids[i]].reminder_count]]

\* an update that leaves last_activity_date alone
increment_reminder_count_NoActivity(rn, user_id, now) == [k \in DOMAIN rn |-> IF k = user_id THEN [rn[k] EXCEPT !.reminder_count = @ + 1, !.last_reminder_date = now] ELSE rn[k]]

\* UPDATE ... SET reminder_count = reminder_count + 1, last_reminder_date = now,
\* last_activity_date = now WHERE user_id = ?
increment_reminder_count(rn, user_id, now) == [k \in DOMAIN rn |-> IF k = user_id THEN [rn[k] EXCEPT !.reminder_count = @ + 1, !.last_reminder_date = now, !.last_activity_date = now] ELSE rn[k]]

\* an update that is lost
pause_reminders_Lost(rn, user_id) == rn

\* UPDATE reminder_notifications SET reminder_paused = TRUE WHERE user_id = ?
pause_reminders(rn, user_id) == [k \in DOMAIN rn |-> IF k = user_id THEN [rn[k] EXCEPT !.reminder_paused = TRUE] ELSE rn[k]]

\* --------------------------------------------------------- PhoneVerifier

\* A Python str is a sequence of one-character strings.
Digits == {"0", "1", "2", "3", "4", "5", "6", "7", "8", "9"}

\* str.replace(ch, "")
Remove(s, ch) == SelectSeq(s, LAMBDA x : x # ch)

\* str.startswith(prefix)
StartsWith(s, prefix) == Len(s) >= Len(prefix) /\ SubSeq(s, 1, Len(prefix)) = prefix

\* s[1:]
Tail1(s) == SubSeq(s, 2, Len(s))

Plus63 == <<"+", "6", "3">>

\* phone_number.replace(" ", "").replace("-", "")
Cleaned(phone_number) == Remove(Remove(phone_number, " "), "-")

\* no normalisation at all
Normalize_Nothing(c) == c

\* a chain without the first branch
Normalize_NoTrunk(c) ==
    IF StartsWith(c, <<"9">>) /\ Len(c) = 10 THEN Plus63 \o c
    ELSE IF StartsWith(c, <<"6", "3">>) /\ ~StartsWith(c, Plus63) THEN <<"+">> \o c
    ELSE IF ~StartsWith(c, <<"+">>) /\ Len(c) = 10 THEN (IF StartsWith(c, <<"0">>) THEN Plus63 \o Tail1(c) ELSE Plus63 \o c)
    ELSE c

\* a chain whose last branch asks for the length only
Normalize_CoercesPlus(c) ==
    IF StartsWith(c, <<"0", "9">>) THEN Plus63 \o Tail1(c)
    ELSE IF StartsWith(c, <<"9">>) /\ Len(c) = 10 THEN Plus63 \o c
    ELSE IF StartsWith(c, <<"6", "3">>) /\ ~StartsWith(c, Plus63) THEN <<"+">> \o c
    ELSE IF Len(c) = 10 THEN (IF StartsWith(c, <<"0">>) THEN Plus63 \o Tail1(c) ELSE Plus63 \o c)
    ELSE c

\* the if / elif chain on cleaned_number
Normalize(c) ==
    IF StartsWith(c, <<"0", "9">>) THEN Plus63 \o Tail1(c)
    ELSE IF StartsWith(c, <<"9">>) /\ Len(c) = 10 THEN Plus63 \o c
    ELSE IF StartsWith(c, <<"6", "3">>) /\ ~StartsWith(c, Plus63) THEN <<"+">> \o c
    ELSE IF ~StartsWith(c, <<"+">>) /\ Len(c) = 10 THEN (IF StartsWith(c, <<"0">>) THEN Plus63 \o Tail1(c) ELSE Plus63 \o c)
    ELSE c

\* The phonenumbers library, for strings of digits, "+" and letters.
\* parse() without a default region wants "+", a known country calling code
\* and a national number of 2 to 17 digits; anything else raises
\* NumberParseException.  Calling codes known here: 63 (PH) and 1 (NANPA).
AllDigits(s) == \A i \in 1..Len(s) : s[i] \in Digits

CountryCodeOf(ds) == IF StartsWith(ds, <<"6", "3">>) THEN <<"6", "3">> ELSE IF StartsWith(ds, <<"1">>) THEN <<"1">> ELSE <<>>

ParseOk(s) == /\ StartsWith(s, <<"+">>)
              /\ AllDigits(Tail1(s))
              /\ CountryCodeOf(Tail1(s)) # <<>>
              /\ Len(Tail1(s)) - Len(CountryCodeOf(Tail1(s))) \in 2..17

\* phonenumbers.parse(s): country_code and national_number
Parse(s) == LET cc == CountryCodeOf(Tail1(s)) IN [country_code |-> cc, national_number |-> SubSeq(s, Len(cc) + 2, Len(s))]

\* phonenumbers.is_valid_number: PH mobile numbers (9 and nine more digits),
\* NANPA numbers NXX NXX XXXX
is_valid_number(parsed) ==
    LET n == parsed.national_number IN
    IF parsed.country_code = <<"6", "3">> THEN Len(n) = 10 /\ n[1] = "9"
    ELSE Len(n) = 10 /\ n[1] \notin {"0", "1"} /\ n[4] \notin {"0", "1"}

\* phonenumbers.region_code_for_number: 63 has the one region PH; a NANPA
\* number has the region whose numbering plan it matches, or None
region_code_for_number(parsed) == IF parsed.country_code = <<"6", "3">> THEN "PH" ELSE IF is_valid_number(parsed) THEN "US" ELSE "None"

\* phonenumbers.format_number(parsed, INTERNATIONAL): "+CC national number"
format_number(parsed) == <<"+">> \o parsed.country_code \o <<" ">> \o parsed.national_number

\* a classifier that does not ask whether the number is valid
verify_phone_number_IgnoresValidity(phone_number) ==
    LET cleaned_number == Normalize(Cleaned(phone_number)) IN
    IF ParseOk(cleaned_number)
    THEN LET parsed == Parse(cleaned_number)
             region == region_code_for_number(parsed)
             is_valid == is_valid_number(parsed)
         IN [is_filipino |-> region = "PH" /\ parsed.country_code = <<"6", "3">>, country_code |-> parsed.country_code, region |-> region, formatted_number |-> format_number(parsed), is_valid |-> is_valid]
    ELSE [is_filipino |-> FALSE, country_code |-> <<>>, region |-> "None", formatted_number |-> phone_number, is_valid |-> FALSE]

\* a failure branch that echoes the rewritten string
verify_phone_number_EchoesCleaned(phone_number) ==
    LET cleaned_number == Normalize(Cleaned(phone_number)) IN
    IF ParseOk(cleaned_number)
    THEN LET parsed == Parse(cleaned_number)
             region == region_code_for_number(parsed)
             is_valid == is_valid_number(parsed)
         IN [is_filipino |-> region = "PH" /\ parsed.country_code = <<"6", "3">> /\ is_valid, country_code |-> parsed.country_code, region |-> region, formatted_number |-> format_number(parsed), is_valid |-> is_valid]
    ELSE [is_filipino |-> FALSE, country_code |-> <<>>, region |-> "None", formatted_number |-> cleaned_number, is_valid |-> FALSE]

\* PhoneVerifier.verify_phone_number
verify_phone_number(phone_number) ==
    LET cleaned_number == Normalize(Cleaned(phone_number)) IN
    IF ParseOk(cleaned_number)
    THEN LET parsed == Parse(cleaned_number)
             region == region_code_for_number(parsed)
             is_valid == is_valid_number(parsed)
         IN [is_filipino |-> region = "PH" /\ parsed.country_code = <<"6", "3">> /\ is_valid, country_code |-> parsed.country_code, region |-> region, formatted_number |-> format_number(parsed), is_valid |-> is_valid]
    ELSE [is_filipino |-> FALSE, country_code |-> <<>>, region |-> "None", formatted_number |-> phone_number, is_valid |-> FALSE]

\* what phonenumbers.parse raises for the string: NumberParseException when
\* it does not parse ("none" when it does); the calls on a parsed number
\* (region_code_for_number, is_valid_number, format_number) and the str
\* methods of the normalisation raise nothing
ParseRaises(s) == IF ParseOk(s) THEN "none" ELSE "NumberParseException"

\* an except clause that matches nothing
Caught_Nothing(exc) == FALSE

\* except NumberParseException
Caught(exc) == exc = "NumberParseException"

\* the exception that leaves verify_phone_number, "none" when it returns
Propagated(phone_number) == LET exc == ParseRaises(Normalize(Cleaned(phone_number))) IN IF exc = "none" \/ Caught(exc) THEN "none" ELSE exc

\* contact.phone_number as Telegram hands it over
PhLocal == <<"0", "9", "1", "7", "1", "2", "3", "4", "5", "6", "7">>
UsNumber == <<"+", "1", " ", "2", "0", "2", " ", "5", "5", "5", " ", "0", "1", "7", "8">>
NotANumber == <<"n", "o", "t", " ", "a", " ", "n", "u", "m", "b", "e", "r">>
RawPhones == {PhLocal, UsNumber, NotANumber}

\* ---------------------------------------------------- FilipinoBotManager

\* datetime.now(): the naive local time
Now == clock + tz

\* what the last step did: the handler, the account that sent the update,
\* the id the update carries (arg: the chat of a join request, the owner of
\* a contact, the target of a ban; 0 when there is none), the branch the
\* handler took (decision), whether the join prompt was the first-time one,
\* whether the Telegram call the branch depends on went through, and, for a
\* join request, whether the account had asked to join before (repeat); for
\* a contact the handler classified, the contact.phone_number it read (phone)
Reply(op, user, arg, decision, is_first_time, ok) == [op |-> op, user |-> user, arg |-> arg, decision |-> decision, is_first_time |-> is_first_time, ok |-> ok, repeat |-> FALSE, phone |-> <<>>]

\* the account has a row in join_requests, for whatever chat
HasRequested(jr, user_id) == \E k \in DOMAIN jr : k[1] = user_id

JoinReply(user, chat, decision, is_first_time, ok) == [Reply("join_request", user, chat, decision, is_first_time, ok) EXCEPT !.repeat = HasRequested(join_requests, user)]

\* the reply of handle_contact once it has read contact.phone_number
ContactReply(user, owner, phone, decision) == [Reply("contact", user, owner, decision, FALSE, TRUE) EXCEPT !.phone = phone]

NoReply == Reply("none", 0, 0, "none", FALSE, TRUE)

\* the three tables the reminder handlers leave alone
Unverifying == UNCHANGED <<verified_users, join_requests, verification_attempts>>

SweepUntouched == UNCHANGED <<clock, tz, incomplete_users, sweep_pc, slept>>

\* a test that lets the admin's requests through
JoinSkipped_BotsOnly(user_id) == user_id \in BotAccounts

\* handle_join_request, the branch for bots and the admin: return
JoinSkipped(user_id) == user_id \in BotAccounts \/ user_id = ADMIN_ID

\* is_first_reminder, read after add_join_request and update_user_activity
IsFirstReminder(rn, user_id) == ~has_received_reminder(rn, user_id)

\* handle_join_request: api_ok is the outcome of approve_chat_join_request.
\* A prompt that cannot be sent is logged and changes nothing.
handle_join_request(user_id, chat_id, api_ok) ==
    /\ SweepUntouched
    /\ UNCHANGED verification_attempts
    /\ UNCHANGED verified_users
    /\ IF JoinSkipped(user_id)
       THEN /\ UNCHANGED <<join_requests, reminder_notifications>>
            /\ reply' = JoinReply(user_id, chat_id, "Skipped", FALSE, TRUE)
       ELSE LET jr1 == add_join_request(join_requests, user_id, chat_id)
                rn1 == update_user_activity(reminder_notifications, user_id, Now)
            IN IF is_verified(verified_users, user_id)
               THEN /\ join_requests' = (IF api_ok THEN update_join_request_status(jr1, user_id, chat_id, "approved") ELSE jr1)
                    /\ reminder_notifications' = rn1
                    /\ reply' = JoinReply(user_id, chat_id, "AutoApprove", FALSE, api_ok)
               ELSE LET is_first_reminder == IsFirstReminder(rn1, user_id)
                    IN /\ join_requests' = jr1
                       /\ reminder_notifications' = (IF is_first_reminder THEN add_reminder_notification(rn1, user_id, Now) ELSE rn1)
                       /\ reply' = JoinReply(user_id, chat_id, "PromptVerification", is_first_reminder, TRUE)

\* start_command
start_command(user_id) ==
    /\ SweepUntouched
    /\ Unverifying
    /\ reminder_notifications' = mark_verification_started(update_user_activity(reminder_notifications, user_id, Now), user_id, Now)
    /\ reply' = Reply("start", user_id, 0, IF is_verified(verified_users, user_id) THEN "AlreadyVerified" ELSE IF has_received_reminder(reminder_notifications', user_id) THEN "ResumePrompt" ELSE "FreshPrompt", FALSE, TRUE)

\* a text that drops the region
NotFilipino_Unknown(region) == <<"Not Filipino number: ", "Unknown">>

\* the text of the failed attempt: f"Not Filipino number: {region}"
NotFilipino(region) == <<"Not Filipino number: ", region>>

\* a handler that takes every contact card for the sender's own
IsForeignContact_Never(contact_user_id, user_id) == FALSE

\* contact.user_id != user.id: the contact card names somebody else
IsForeignContact(contact_user_id, user_id) == contact_user_id # user_id

\* a handler that approves the sender's requests on file
handle_contact_ApprovesPending(user_id, contact_user_id, phone_number) ==
    /\ SweepUntouched
    /\ join_requests' = [k \in DOMAIN join_requests |-> IF k[1] = user_id THEN [status |-> "approved"] ELSE join_requests[k]]
    /\ ~IsForeignContact(contact_user_id, user_id) => Len(verification_attempts) < MaxAttempts
    /\ reminder_notifications' = update_user_activity(reminder_notifications, user_id, Now)
    /\ IF IsForeignContact(contact_user_id, user_id)
       THEN /\ UNCHANGED <<verified_users, verification_attempts>>
            /\ reply' = Reply("contact", user_id, contact_user_id, "RejectForeignContact", FALSE, TRUE)
       ELSE LET verification_result == verify_phone_number(phone_number)
            IN IF verification_result.is_filipino
               THEN /\ verified_users' = add_verified_user_vu(verified_users, user_id, verification_result.formatted_number, Now)
                    /\ verification_attempts' = add_verified_user_va(verification_attempts, user_id, verification_result.formatted_number)
                    /\ reply' = ContactReply(user_id, contact_user_id, phone_number, "VerifiedSuccess")
               ELSE /\ UNCHANGED verified_users
                    /\ verification_attempts' = add_verification_attempt(verification_attempts, user_id, phone_number, FALSE, NotFilipino(verification_result.region))
                    /\ reply' = ContactReply(user_id, contact_user_id, phone_number, "VerifiedFailure")

\* handle_contact (filters.CONTACT: the message carries a contact)
handle_contact(user_id, contact_user_id, phone_number) ==
    /\ SweepUntouched
    /\ UNCHANGED join_requests
    /\ ~IsForeignContact(contact_user_id, user_id) => Len(verification_attempts) < MaxAttempts
    /\ reminder_notifications' = update_user_activity(reminder_notifications, user_id, Now)
    /\ IF IsForeignContact(contact_user_id, user_id)
       THEN /\ UNCHANGED <<verified_users, verification_attempts>>
            /\ reply' = Reply("contact", user_id, contact_user_id, "RejectForeignContact", FALSE, TRUE)
       ELSE LET verification_result == verify_phone_number(phone_number)
            IN IF verification_result.is_filipino
               THEN /\ verified_users' = add_verified_user_vu(verified_users, user_id, verification_result.formatted_number, Now)
                    /\ verification_attempts' = add_verified_user_va(verification_attempts, user_id, verification_result.formatted_number)
                    /\ reply' = ContactReply(user_id, contact_user_id, phone_number, "VerifiedSuccess")
               ELSE /\ UNCHANGED verified_users
                    /\ verification_attempts' = add_verification_attempt(verification_attempts, user_id, phone_number, FALSE, NotFilipino(verification_result.region))
                    /\ reply' = ContactReply(user_id, contact_user_id, phone_number, "VerifiedFailure")

\* help_command
help_command(user_id) ==
    /\ SweepUntouched
    /\ Unverifying
    /\ reminder_notifications' = update_user_activity(reminder_notifications, user_id, Now)
    /\ reply' = Reply("help", user_id, 0, IF is_verified(verified_users, user_id) THEN "HelpVerified" ELSE "HelpUnverified", FALSE, TRUE)

\* stats_command
stats_command(user_id) ==
    /\ SweepUntouched
    /\ Unverifying
    /\ reminder_notifications' = update_user_activity(reminder_notifications, user_id, Now)
    /\ reply' = Reply("stats", user_id, 0, IF is_verified(verified_users, user_id) THEN "StatsVerified" ELSE "StatsUnverified", FALSE, TRUE)

\* pause_reminders_command
pause_reminders_command(user_id) ==
    /\ SweepUntouched
    /\ Unverifying
    /\ reminder_notifications' = pause_reminders(update_user_activity(reminder_notifications, user_id, Now), user_id)
    /\ reply' = Reply("pause_reminders", user_id, 0, "Paused", FALSE, TRUE)

\* admin_stats_command: reads the four tables
admin_stats_command(user_id) ==
    /\ SweepUntouched
    /\ Unverifying
    /\ UNCHANGED reminder_notifications
    /\ reply' = Reply("admin_stats", user_id, 0, IF user_id # ADMIN_ID THEN "AdminOnly" ELSE "AdminStats", FALSE, TRUE)

\* context.args of /ban_user: no argument, or a first argument that int()
\* accepts (value) or rejects
BanArgs == {<<>>} \cup {<<[is_int |-> TRUE, value |-> t]>> : t \in Users} \cup {<<[is_int |-> FALSE, value |-> 0]>>}

\* a command that does not ask who sent it
ban_user_command_AnyIssuer(user_id, args) ==
    /\ SweepUntouched
    /\ UNCHANGED <<join_requests, reminder_notifications, verification_attempts>>
    /\ IF FALSE
       THEN UNCHANGED verified_users /\ reply' = Reply("ban_user", user_id, 0, "AdminOnly", FALSE, TRUE)
       ELSE IF args = <<>>
       THEN UNCHANGED verified_users /\ reply' = Reply("ban_user", user_id, 0, "Usage", FALSE, TRUE)
       ELSE IF ~args[1].is_int
       THEN UNCHANGED verified_users /\ reply' = Reply("ban_user", user_id, 0, "InvalidUserId", FALSE, TRUE)
       ELSE IF args[1].value = ADMIN_ID
       THEN UNCHANGED verified_users /\ reply' = Reply("ban_user", user_id, args[1].value, "CannotBanAdmin", FALSE, TRUE)
       ELSE /\ verified_users' = ban_user(verified_users, args[1].value)
            /\ reply' = Reply("ban_user", user_id, args[1].value, "Banned", FALSE, TRUE)

\* ban_user_command
ban_user_command(user_id, args) ==
    /\ SweepUntouched
    /\ UNCHANGED <<join_requests, reminder_notifications, verification_attempts>>
    /\ IF user_id # ADMIN_ID
       THEN UNCHANGED verified_users /\ reply' = Reply("ban_user", user_id, 0, "AdminOnly", FALSE, TRUE)
       ELSE IF args = <<>>
       THEN UNCHANGED verified_users /\ reply' = Reply("ban_user", user_id, 0, "Usage", FALSE, TRUE)
       ELSE IF ~args[1].is_int
       THEN UNCHANGED verified_users /\ reply' = Reply("ban_user", user_id, 0, "InvalidUserId", FALSE, TRUE)
       ELSE IF args[1].value = ADMIN_ID
       THEN UNCHANGED verified_users /\ reply' = Reply("ban_user", user_id, args[1].value, "CannotBanAdmin", FALSE, TRUE)
       ELSE /\ verified_users' = ban_user(verified_users, args[1].value)
            /\ reply' = Reply("ban_user", user_id, args[1].value, "Banned", FALSE, TRUE)

\* ------------------------------------------------------- reminder sweep

\* _reminder_scheduler_loop: await asyncio.sleep(21600) runs while time passes
Tick ==
    /\ clock + TickStep <= MaxTime
    /\ clock' = clock + TickStep
    /\ slept' = (IF slept + TickStep < SweepInterval THEN slept + TickStep ELSE SweepInterval)
    /\ reply' = NoReply
    /\ UNCHANGED <<tz, verified_users, join_requests, reminder_notifications, verification_attempts, incomplete_users, sweep_pc>>

\* send_proactive_reminders up to the loop: the query, and the return when
\* it finds nobody
SweepBegin ==
    /\ sweep_pc = "sleep"
    /\ slept >= SweepInterval
    /\ LET rows == get_incomplete_verifications(reminder_notifications, verified_users, clock)
       IN IF rows = <<>>
          THEN /\ slept' = 0
               /\ reply' = Reply("sweep", 0, 0, "NoUsers", FALSE, TRUE)
               /\ UNCHANGED <<incomplete_users, sweep_pc>>
          ELSE /\ incomplete_users' = rows
               /\ sweep_pc' = "loop"
               /\ reply' = Reply("sweep", 0, 0, "Batch", FALSE, TRUE)
               /\ UNCHANGED slept
    /\ UNCHANGED <<clock, tz, verified_users, join_requests, reminder_notifications, verification_attempts>>

\* the message chosen from the reminder_count the query returned
ReminderTier(reminder_count) == IF reminder_count = 1 THEN "SecondReminder" ELSE IF reminder_count = 2 THEN "FinalReminder" ELSE "Skip"

\* a send whose failure is counted like a delivery
AfterSend_CountsFailures(rn, user_id, tier, delivered, now) == IF tier # "Skip" THEN increment_reminder_count(rn, user_id, now) ELSE rn

\* the body of the try block after the tier is chosen: send_message, then
\* increment_reminder_count unless the send raised or the row was skipped
AfterSend(rn, user_id, tier, delivered, now) == IF tier # "Skip" /\ delivered THEN increment_reminder_count(rn, user_id, now) ELSE rn

\* One pass of the for loop, for the first row not yet handled; delivered is
\* the outcome of bot.send_message.  After the last row the admin is told
\* and the scheduler sleeps again.
SweepUser(delivered) ==
    /\ sweep_pc = "loop"
    /\ LET user_data == Head(incomplete_users)
           tier == ReminderTier(user_data.reminder_count)
       IN /\ reminder_notifications' = AfterSend(reminder_notifications, user_data.user_id, tier, delivered, Now)
          /\ reply' = Reply("reminder", user_data.user_id, 0, tier, FALSE, tier = "Skip" \/ delivered)
    /\ incomplete_users' = Tail(incomplete_users)
    /\ sweep_pc' = (IF Tail(incomplete_users) = <<>> THEN "sleep" ELSE "loop")
    /\ slept' = (IF Tail(incomplete_users) = <<>> THEN 0 ELSE slept)
    /\ UNCHANGED <<clock, tz, verified_users, join_requests, verification_attempts>>

\* ------------------------------------------------------- specifications

JoinRequest == \E u \in UserIds, c \in Chats, api_ok \in BOOLEAN : handle_join_request(u, c, api_ok)
Start == \E u \in Members : start_command(u)
Contact == \E u \in Members, o \in ContactOwners, p \in RawPhones : handle_contact(u, o, p)
Help == \E u \in Members : help_command(u)
Stats == \E u \in Members : stats_command(u)
PauseReminders == \E u \in Members : pause_reminders_command(u)
AdminStats == \E u \in Users : admin_stats_command(u)
BanUser == \E u \in Users, a \in BanArgs : ban_user_command(u, a)
Sweep == \E delivered \in BOOLEAN : SweepUser(delivered)

Next == JoinRequest \/ Start \/ Contact \/ Help \/ Stats \/ PauseReminders \/ AdminStats \/ BanUser \/ Tick \/ SweepBegin \/ Sweep

\* the state common to every start: no sweep running, nothing handled yet
InitCommon ==
    /\ clock = 0
    /\ tz \in TZOffsets
    /\ verified_users = <<>>
    /\ join_requests = <<>>
    /\ verification_attempts = <<>>
    /\ incomplete_users = <<>>
    /\ sweep_pc = "sleep"
    /\ slept = 0
    /\ reply = NoReply

\* DatabaseManager.init_database on a new file: four empty tables
Init == InitCommon /\ reminder_notifications = <<>>

Spec == Init /\ [][Next]_vars

\* init_database on a file that already holds reminder rows (CREATE TABLE IF
\* NOT EXISTS keeps them): the admin's as add_reminder_notification writes
\* it, a member's as one increment_reminder_count leaves it after that
LegacyRows(ids) == [u \in ids |-> IF u = ADMIN_ID THEN add_reminder_notification(<<>>, u, 0 - LegacyAge)[u] ELSE increment_reminder_count(add_reminder_notification(<<>>, u, 0 - LegacyAge), u, 0 - LegacyAge)[u]]

InitDb == InitCommon /\ reminder_notifications = LegacyRows(Users)

SpecDb == InitDb /\ [][Next]_vars

\* The scheduler task runs for as long as the process does: time passes,
\* every sleep ends, and a batch that was read is worked off.
SpecFair == Init /\ [][Next]_vars /\ WF_vars(Tick) /\ WF_vars(SweepBegin) /\ WF_vars(Sweep)

\* ------------------------------------------- the classifier on its own

\* the longest run of digits after a prefix
MaxDigits == 10

\* how a phone number may begin
PhonePrefixes == {<<>>, <<"0">>, <<"0", "9">>, <<"9">>, <<"6", "3">>, <<"6", "3", "9">>, Plus63, Plus63 \o <<"9">>, <<"+", "1">>, <<"1">>}

\* the digits that follow the prefix: a first digit and a run of one digit
BodyDigits == {"1", "7", "9"}

PhoneBodies == {<<>>} \cup {<<d>> \o [i \in 1..n |-> f] : d \in BodyDigits, f \in BodyDigits, n \in 0..(MaxDigits - 1)}

\* the phone_number arguments tried: prefix and digits, written with and
\* without a leading space and a space or hyphen after the prefix, and the
\* three contacts of the bot model
PhoneInputs == RawPhones \cup {lead \o prefix \o sep \o body : lead \in {<<>>, <<" ">>}, prefix \in PhonePrefixes, sep \in {<<>>, <<" ">>, <<"-">>}, body \in PhoneBodies}

\* a call of verify_phone_number about to be made
Call(phone_number) == [op |-> "call", phone |-> phone_number]

\* verify_phone_number(reply.phone) runs: cleaned_number as it is handed to
\* phonenumbers.parse, the dict returned, and the exception the call ends
\* with instead ("none" when it returns)
Classify ==
    /\ reply.op = "call"
    /\ reply' = [op |-> "verify_phone_number", phone |-> reply.phone, cleaned_number |-> Normalize(Cleaned(reply.phone)), result |-> verify_phone_number(reply.phone), raised |-> Propagated(reply.phone)]
    /\ UNCHANGED <<clock, tz, verified_users, join_requests, reminder_notifications, verification_attempts, incomplete_users, sweep_pc, slept>>

NextClassifier == Classify

InitClassifier ==
    /\ clock = 0
    /\ tz = 0
    /\ verified_users = <<>>
    /\ join_requests = <<>>
    /\ reminder_notifications = <<>>
    /\ verification_attempts = <<>>
    /\ incomplete_users = <<>>
    /\ sweep_pc = "sleep"
    /\ slept = 0
    /\ \E phone_number \in PhoneInputs : reply = Call(phone_number)

SpecClassifier == InitClassifier /\ [][NextClassifier]_vars

\* --------------------------------------------------------------- claims

\* the account holds a VerifiedIdentity that is not banned
GoodIdentity(user_id) == user_id \in DOMAIN verified_users /\ verified_users[user_id].is_banned = FALSE

\* the step just taken handled a contact card that names somebody else
ForeignContact == reply.op = "contact" /\ reply.arg # reply.user

\* C1: a contact whose owner is not the submitter is rejected as a foreign
\* contact, and the step creates or changes no row of verified_users and no
\* row of verification_attempts, for any user.
C1_ForeignContactRejected ==
    /\ [](ForeignContact => reply.decision = "RejectForeignContact")
    /\ [][ForeignContact' => (verified_users' = verified_users /\ verification_attempts' = verification_attempts)]_vars

\* a foreign contact was just rejected while both tables hold rows
C1_Witness == ForeignContact /\ reply.decision = "RejectForeignContact" /\ DOMAIN verified_users # {} /\ verification_attempts # <<>>

Touched(rn, user_id, now) == IF user_id \in DOMAIN rn THEN [rn[user_id] EXCEPT !.last_activity_date = now] ELSE [first_reminder_date |-> now, reminder_count |-> 0, last_activity_date |-> now, last_reminder_date |-> now, verification_started |-> FALSE, reminder_paused |-> FALSE]

VerifiedJoin == reply.op = "join_request" /\ GoodIdentity(reply.user)

\* the status of the record of the join request just handled
JoinStatus == IF <<reply.user, reply.arg>> \in DOMAIN join_requests THEN join_requests[<<reply.user, reply.arg>>].status ELSE "none"

\* C4 as claimed: every join request of an account with an unbanned
\* VerifiedIdentity is answered AutoApprove and leaves its record approved.
C4_VerifiedJoinApproved == VerifiedJoin => (reply.decision = "AutoApprove" /\ JoinStatus = "approved")

\* C4 as amended: every join request the handler takes up (not a bot's, not
\* the admin's) of an account with an unbanned VerifiedIdentity is answered
\* AutoApprove; its record ends approved when approve_chat_join_request
\* succeeds and pending when that call fails.
C4_ApprovedWhenCallSucceeds == (VerifiedJoin /\ reply.user \notin BotAccounts /\ reply.user # ADMIN_ID) => (reply.decision = "AutoApprove" /\ JoinStatus = (IF reply.ok THEN "approved" ELSE "pending"))

\* a verified account was just auto-approved and its record says so
C4_Witness == VerifiedJoin /\ reply.decision = "AutoApprove" /\ reply.ok /\ JoinStatus = "approved"

\* C5: is_first_time is true at most on an account's first join request:
\* a request of an account that asked before is never answered first-time.
C5_FirstTimeOnlyOnFirstCall == (reply.op = "join_request" /\ reply.repeat) => ~reply.is_first_time

\* an unverified account asked again and got the regular prompt
C5_Witness == reply.op = "join_request" /\ reply.repeat /\ reply.decision = "PromptVerification" /\ ~reply.is_first_time

\* C6 as claimed: the prompt of an unverified account is first-time exactly
\* when the account had no reminder row before the call, and then the row
\* stored has reminder_count = 1 and first_reminder_date = now.
C6_FirstTimeIffNoRow == [][(reply'.op = "join_request" /\ reply'.decision = "PromptVerification") => ((reply'.is_first_time <=> reply'.user \notin DOMAIN reminder_notifications) /\ (reply'.is_first_time => (reminder_notifications'[reply'.user].reminder_count = 1 /\ reminder_notifications'[reply'.user].first_reminder_date = clock + tz)))]_vars

\* the reminder_count on file for an account, 0 when it has no row
ReminderCount(rn, user_id) == IF user_id \in DOMAIN rn THEN rn[user_id].reminder_count ELSE 0

\* the time conditions of the sweep query hold for the account's row
TimeQualifies(user_id) == /\ reminder_notifications[user_id].first_reminder_date < clock - Day
                          /\ reminder_notifications[user_id].last_activity_date < clock - Day
                          /\ reminder_notifications[user_id].last_reminder_date < clock - Day

\* C7: an account whose reminder_count has reached 3 is never selected by
\* the sweep query again, whatever the time and whatever else happens: the
\* query leaves it out, no batch holds it, and its count never changes again.
C7_ReminderCap ==
    /\ [](\A u \in DOMAIN reminder_notifications : reminder_notifications[u].reminder_count >= MaxReminders => u \notin SelectedUsers(reminder_notifications, verified_users, clock))
    /\ [](\A i \in DOMAIN incomplete_users : reminder_notifications[incomplete_users[i].user_id].reminder_count < MaxReminders)
    /\ [][\A u \in DOMAIN reminder_notifications : reminder_notifications[u].reminder_count >= MaxReminders => (u \in DOMAIN reminder_notifications' /\ reminder_notifications'[u].reminder_count = reminder_notifications[u].reminder_count)]_vars

\* the sweep query just ran and left out an unverified, unpaused account with
\* three reminders whose dates are all more than a day old
C7_Witness == reply.op = "sweep" /\ \E u \in DOMAIN reminder_notifications : reminder_notifications[u].reminder_count = MaxReminders /\ TimeQualifies(u) /\ ~reminder_notifications[u].reminder_paused /\ ~GoodIdentity(u)

\* the step from the current state to the next sends the account a reminder
\* message: a proactive one, or the first verification prompt of a join request
ReminderSent(user_id) ==
    \/ reply'.op = "reminder" /\ reply'.user = user_id /\ reply'.decision # "Skip" /\ reply'.ok
    \/ reply'.op = "join_request" /\ reply'.user = user_id /\ reply'.decision = "PromptVerification" /\ user_id \notin DOMAIN reminder_notifications

\* C8 as claimed: reminder_count is always between 0 and 3 and equals the
\* number of reminder messages sent to the account: it starts at 0 and a
\* step adds 1 exactly when it sends the account a reminder message.
C8_CountEqualsSent ==
    /\ [](\A u \in DOMAIN reminder_notifications : reminder_notifications[u].reminder_count \in 0..MaxReminders)
    /\ [][\A u \in Users : ReminderCount(reminder_notifications', u) = ReminderCount(reminder_notifications, u) + (IF ReminderSent(u) THEN 1 ELSE 0)]_vars

\* C9: once reminder_paused is set for an account it stays set through every
\* later step, and the sweep query leaves the account out every time it runs.
C9_PauseSticky ==
    /\ [][\A u \in DOMAIN reminder_notifications : reminder_notifications[u].reminder_paused => (u \in DOMAIN reminder_notifications' /\ reminder_notifications'[u].reminder_paused)]_vars
    /\ [](\A u \in DOMAIN reminder_notifications : reminder_notifications[u].reminder_paused => u \notin SelectedUsers(reminder_notifications, verified_users, clock))
    /\ [][reply'.op = "sweep" => \A i \in DOMAIN incomplete_users' : ~reminder_notifications[incomplete_users'[i].user_id].reminder_paused]_vars

\* the sweep query just ran and left out a paused, unverified account whose
\* dates are all more than a day old and whose count is below the cap
C9_Witness == reply.op = "sweep" /\ \E u \in DOMAIN reminder_notifications : reminder_notifications[u].reminder_paused /\ TimeQualifies(u) /\ reminder_notifications[u].reminder_count < MaxReminders /\ ~GoodIdentity(u) /\ reminder_notifications[u].last_activity_date > reminder_notifications[u].first_reminder_date

OwnContact == reply.op = "contact" /\ reply.arg = reply.user

\* the rows of verification_attempts of one account
AttemptsOf(user_id) == SelectSeq(verification_attempts, LAMBDA a : a.user_id = user_id)

\* C11: an own contact with the valid Philippine number PhLocal is answered
\* VerifiedSuccess every time, also on a second submission, and leaves the
\* sender with its one verified_users row (user_id is the primary key: the
\* table is a function of user_id); a resubmission adds no row to the table.
C11_ReverifyIdempotent ==
    /\ []((OwnContact /\ reply.phone = PhLocal) => (reply.decision = "VerifiedSuccess" /\ reply.user \in DOMAIN verified_users))
    /\ [][(OwnContact' /\ reply'.phone = PhLocal /\ reply'.user \in DOMAIN verified_users) => DOMAIN verified_users' = DOMAIN verified_users]_vars

\* the same Philippine number was just accepted from the same account for
\* the second time
C11_Witness == OwnContact /\ reply.phone = PhLocal /\ reply.decision = "VerifiedSuccess" /\ Len(AttemptsOf(reply.user)) = 2 /\ AttemptsOf(reply.user)[1] = AttemptsOf(reply.user)[2] /\ AttemptsOf(reply.user)[1].success

\* C12 as claimed: a successful own contact of an account that is verified
\* and not banned leaves the account's verified_users row as it was.
C12_ReverifyNoOp == [][(OwnContact' /\ reply'.decision = "VerifiedSuccess" /\ GoodIdentity(reply'.user)) => verified_users'[reply'.user] = verified_users[reply'.user]]_vars

\* C12 as amended: a successful own contact of an account that is verified
\* and not banned leaves it verified and not banned, but rewrites its row:
\* phone_number is the number just classified, verified_date the time of
\* the call; no other account's row changes.
C12_ReverifyRewrites == [][(OwnContact' /\ reply'.decision = "VerifiedSuccess" /\ GoodIdentity(reply'.user)) => (/\ verified_users'[reply'.user].is_banned = FALSE
                                                                                                          /\ verified_users'[reply'.user].phone_number = verify_phone_number(reply'.phone).formatted_number
                                                                                                          /\ verified_users'[reply'.user].verified_date = clock + tz
                                                                                                          /\ \A k \in DOMAIN verified_users \ {reply'.user} : verified_users'[k] = verified_users[k])]_vars

\* an account with two successful attempts was just verified at a later time
\* than its first activity
C12_Witness == OwnContact /\ reply.decision = "VerifiedSuccess" /\ Len(AttemptsOf(reply.user)) = 2 /\ AttemptsOf(reply.user)[1].success /\ verified_users[reply.user].verified_date > reminder_notifications[reply.user].first_reminder_date

\* the time that has passed since a stamp was written (both are local times)
Elapsed(stamp) == (clock + tz) - stamp

\* C13 as claimed: the sweep query returns an account exactly when it is not
\* verified or is banned, is not paused, has reminder_count < 3, and its
\* first_reminder_date, last_activity_date and last_reminder_date are each
\* at least 24 hours old.
C13_SelectIff == \A u \in DOMAIN reminder_notifications : u \in SelectedUsers(reminder_notifications, verified_users, clock) <=> (/\ ~GoodIdentity(u)
                                                                                                                             /\ ~reminder_notifications[u].reminder_paused
                                                                                                                             /\ reminder_notifications[u].reminder_count < 3
                                                                                                                             /\ Elapsed(reminder_notifications[u].first_reminder_date) >= Day
                                                                                                                             /\ Elapsed(reminder_notifications[u].last_activity_date) >= Day
                                                                                                                             /\ Elapsed(reminder_notifications[u].last_reminder_date) >= Day)

\* the tiers as claimed: 0 second-stage, 1 final-stage, 2 or more nothing
ClaimedTier(reminder_count) == IF reminder_count = 0 THEN "SecondReminder" ELSE IF reminder_count = 1 THEN "FinalReminder" ELSE "Skip"

\* C14 as claimed: for each account of the batch the sweep picks the message
\* from the stored reminder_count: 0 the second-stage message, 1 the
\* final-stage message, 2 or more none.
C14_TierFromCount == [][reply'.op = "reminder" => reply'.decision = ClaimedTier(reminder_notifications[reply'.user].reminder_count)]_vars

\* the step just taken delivered a proactive reminder
ReminderDelivered == reply.op = "reminder" /\ reply.decision # "Skip" /\ reply.ok

\* C15: a delivered reminder adds exactly 1 to the account's reminder_count
\* and sets its last_reminder_date and last_activity_date to the time of the
\* step; the row's other columns, every other row of reminder_notifications
\* and the other three tables are as before.
C15_DeliveryIncrements == [][ReminderDelivered' => (/\ reply'.user \in DOMAIN reminder_notifications
                                                     /\ reminder_notifications' = [reminder_notifications EXCEPT ![reply'.user] = [@ EXCEPT !.reminder_count = @ + 1, !.last_reminder_date = clock + tz, !.last_activity_date = clock + tz]]
                                                     /\ verified_users' = verified_users
                                                     /\ join_requests' = join_requests
                                                     /\ verification_attempts' = verification_attempts)]_vars

\* a reminder was just delivered to an account that had started the
\* verification, while another account has a row too
C15_Witness == ReminderDelivered /\ reminder_notifications[reply.user].verification_started /\ reminder_notifications[reply.user].last_reminder_date = clock + tz /\ reminder_notifications[reply.user].first_reminder_date < clock + tz /\ DOMAIN reminder_notifications \ {reply.user} # {}

\* C16: a reminder that cannot be delivered changes no row; the sweep goes on
\* with the rest of the batch: each pass takes the first row left, the rows
\* after it stay queued, and the loop runs as long as rows are left.
C16_FailureTolerated ==
    /\ [][(reply'.op = "reminder" /\ ~reply'.ok) => (reminder_notifications' = reminder_notifications /\ verified_users' = verified_users)]_vars
    /\ [][reply'.op = "reminder" => (incomplete_users # <<>> /\ reply'.user = Head(incomplete_users).user_id /\ incomplete_users' = Tail(incomplete_users))]_vars
    /\ [](sweep_pc = "loop" <=> incomplete_users # <<>>)

\* a delivery just failed, the row is unchanged and the batch has rows left
C16_Witness == reply.op = "reminder" /\ ~reply.ok /\ reminder_notifications[reply.user].last_reminder_date < clock + tz - Day /\ incomplete_users # <<>> /\ sweep_pc = "loop"

\* the account's first join request was just answered with the prompt, at
\* the start of the run
AwaitingFirstResponse(user_id) == clock = 0 /\ reply.op = "join_request" /\ reply.user = user_id /\ reply.decision = "PromptVerification" /\ ~reply.repeat

\* the account got the second-tier reminder
Reminded1(user_id) == reply.op = "reminder" /\ reply.user = user_id /\ reply.decision = "SecondReminder" /\ reply.ok

\* the account verified, paused the reminders, was active after its first
\* prompt, or a delivery to it failed
LeftWaiting(user_id) ==
    \/ GoodIdentity(user_id)
    \/ user_id \in DOMAIN reminder_notifications /\ reminder_notifications[user_id].reminder_paused
    \/ user_id \in DOMAIN reminder_notifications /\ reminder_notifications[user_id].last_activity_date > reminder_notifications[user_id].first_reminder_date
    \/ reply.op \in {"start", "help", "stats", "pause_reminders", "contact"} /\ reply.user = user_id
    \/ reply.op = "join_request" /\ reply.user = user_id /\ reply.repeat
    \/ reply.op = "reminder" /\ reply.user = user_id /\ ~reply.ok

LastAttempt(va) == va[Len(va)]

\* C18: when an account submits its own contact and the classifier reports a
\* Philippine number, the account's verified_users row afterwards holds the
\* classifier's formatted number, the time of the call and is_banned = FALSE,
\* whatever the row was before, and exactly one successful attempt of that
\* account, with that number, is appended to verification_attempts.
C18_SuccessUpserts == [][(OwnContact' /\ verify_phone_number(reply'.phone).is_filipino) => (/\ reply'.decision = "VerifiedSuccess"
                                                                                           /\ reply'.user \in DOMAIN verified_users'
                                                                                           /\ verified_users'[reply'.user] = [phone_number |-> verify_phone_number(reply'.phone).formatted_number, verified_date |-> clock + tz, is_banned |-> FALSE]
                                                                                           /\ Len(verification_attempts') = Len(verification_attempts) + 1
                                                                                           /\ SubSeq(verification_attempts', 1, Len(verification_attempts)) = verification_attempts
                                                                                           /\ LastAttempt(verification_attempts') = [user_id |-> reply'.user, phone_number |-> verify_phone_number(reply'.phone).formatted_number, success |-> TRUE, error_message |-> "NULL"])]_vars

\* an account whose earlier attempt had failed was just verified, and its row
\* holds the number in international form
C18_Witness == OwnContact /\ reply.decision = "VerifiedSuccess" /\ Len(AttemptsOf(reply.user)) = 2 /\ ~AttemptsOf(reply.user)[1].success /\ verified_users[reply.user].phone_number # reply.phone /\ StartsWith(verified_users[reply.user].phone_number, Plus63) /\ ~verified_users[reply.user].is_banned

\* C19: when an account submits its own contact and the classifier reports
\* no Philippine number, exactly one failed attempt of that account is
\* appended, with the number as submitted and the detected region in its
\* text, and verified_users is left as it was.
C19_FailureRecorded == [][(OwnContact' /\ ~verify_phone_number(reply'.phone).is_filipino) => (/\ reply'.decision = "VerifiedFailure"
                                                                                             /\ verified_users' = verified_users
                                                                                             /\ Len(verification_attempts') = Len(verification_attempts) + 1
                                                                                             /\ SubSeq(verification_attempts', 1, Len(verification_attempts)) = verification_attempts
                                                                                             /\ LastAttempt(verification_attempts') = [user_id |-> reply'.user, phone_number |-> reply'.phone, success |-> FALSE, error_message |-> <<"Not Filipino number: ", verify_phone_number(reply'.phone).region>>])]_vars

\* a verified account just failed with a number of another region and is
\* still verified
C19_Witness == OwnContact /\ reply.decision = "VerifiedFailure" /\ GoodIdentity(reply.user) /\ LastAttempt(verification_attempts).error_message = <<"Not Filipino number: ", "US">>

\* C20 as claimed: an account that is Verified (row present, not banned) or
\* Banned (row present, is_banned) stays in that state through every step.
C20_Terminal == [][\A u \in DOMAIN verified_users : (u \in DOMAIN verified_users' /\ verified_users'[u].is_banned = verified_users[u].is_banned)]_vars

\* C20 as amended: a verified_users row is never removed, so no account
\* returns to Unknown; Verified turns into Banned only by the admin's
\* /ban_user naming the account, and Banned into Verified only by the
\* account's own successful contact; no other step changes either state.
C20_OnlyBanAndReverify == [][\A u \in DOMAIN verified_users : (/\ u \in DOMAIN verified_users'
                                                               /\ (~verified_users[u].is_banned /\ verified_users'[u].is_banned) => (reply'.op = "ban_user" /\ reply'.user = ADMIN_ID /\ reply'.arg = u /\ reply'.decision = "Banned")
                                                               /\ (verified_users[u].is_banned /\ ~verified_users'[u].is_banned) => (reply'.op = "contact" /\ reply'.user = u /\ reply'.arg = u /\ reply'.decision = "VerifiedSuccess"))]_vars

\* the admin just banned an account that had verified twice
C20_Witness == reply.op = "ban_user" /\ reply.decision = "Banned" /\ reply.arg \in DOMAIN verified_users /\ verified_users[reply.arg].is_banned /\ Len(AttemptsOf(reply.arg)) = 2 /\ AttemptsOf(reply.arg)[2].success

\* C21 as claimed: /start answers AlreadyVerified to an account that is
\* verified and not banned; to any other account it answers ResumePrompt
\* when the account had a reminder row before the call and FreshPrompt when
\* it had none.
C21_StartDecision == [][reply'.op = "start" => reply'.decision = (IF GoodIdentity(reply'.user) THEN "AlreadyVerified" ELSE IF reply'.user \in DOMAIN reminder_notifications THEN "ResumePrompt" ELSE "FreshPrompt")]_vars

\* every row of reminder_notifications but the account's is as before
OtherRowsKept(user_id) == \A k \in DOMAIN reminder_notifications \ {user_id} : (k \in DOMAIN reminder_notifications' /\ reminder_notifications'[k] = reminder_notifications[k])

UnverifiedJoin == reply.op = "join_request" /\ ~GoodIdentity(reply.user)

\* C24 as claimed: no join_requests row ever has the status denied; after the
\* join request of an account that is unverified or banned its record is
\* pending, and a pending record stays pending through every step that is
\* not a new join request for the same account and chat.
C24_PendingAfterEveryJoin ==
    /\ [](\A k \in DOMAIN join_requests : join_requests[k].status # "denied")
    /\ [](UnverifiedJoin => JoinStatus = "pending")
    /\ [][\A k \in DOMAIN join_requests : (join_requests[k].status = "pending" /\ ~(reply'.op = "join_request" /\ reply'.user = k[1] /\ reply'.arg = k[2])) => (k \in DOMAIN join_requests' /\ join_requests'[k].status = "pending")]_vars

\* C24 as amended: no join_requests row ever has a status other than pending
\* or approved; after a join request the handler takes up (not a bot's, not
\* the admin's, for which no record is written) of an account that is
\* unverified or banned its record is pending, and a pending record stays
\* pending through every step that is not a new join request for the same
\* account and chat.
C24_PendingUnlessSkipped ==
    /\ [](\A k \in DOMAIN join_requests : join_requests[k].status \in {"pending", "approved"})
    /\ []((UnverifiedJoin /\ reply.user \notin BotAccounts /\ reply.user # ADMIN_ID) => JoinStatus = "pending")
    /\ [][\A k \in DOMAIN join_requests : (join_requests[k].status = "pending" /\ ~(reply'.op = "join_request" /\ reply'.user = k[1] /\ reply'.arg = k[2])) => (k \in DOMAIN join_requests' /\ join_requests'[k].status = "pending")]_vars

\* an account that was approved once and banned since just asked again: its
\* record is back to pending
C24_Witness == UnverifiedJoin /\ reply.repeat /\ reply.user \in DOMAIN verified_users /\ JoinStatus = "pending" /\ reply.decision = "PromptVerification"

\* the account's verified_users row says banned
Banned(user_id) == user_id \in DOMAIN verified_users /\ verified_users[user_id].is_banned

\* C25: /ban_user changes nothing but is_banned of the row it names:
\* phone_number and verified_date are kept and no other row changes; and
\* a banned account is gated like an unverified one: its join requests are
\* not auto-approved and /start does not answer AlreadyVerified, until a
\* contact of its own verifies it again.
C25_BanKeepsRecord ==
    /\ [][(reply'.op = "ban_user" /\ reply'.decision = "Banned") => (/\ DOMAIN verified_users' = DOMAIN verified_users
                                                                    /\ \A k \in DOMAIN verified_users : verified_users'[k] = (IF k = reply'.arg THEN [verified_users[k] EXCEPT !.is_banned = TRUE] ELSE verified_users[k]))]_vars
    /\ []((reply.op = "join_request" /\ Banned(reply.user)) => reply.decision # "AutoApprove")
    /\ []((reply.op = "start" /\ Banned(reply.user)) => reply.decision # "AlreadyVerified")
    /\ []((reply.op = "contact" /\ reply.decision = "VerifiedSuccess") => GoodIdentity(reply.user))

\* /start was just answered with the prompt to a banned account whose phone
\* number is still on file
C25_Witness == reply.op = "start" /\ Banned(reply.user) /\ reply.decision = "ResumePrompt" /\ StartsWith(verified_users[reply.user].phone_number, Plus63)

\* the user ids of the rows of a batch
BatchUsers(rows) == {rows[i].user_id : i \in DOMAIN rows}

\* C26: verification_attempts only grows, by one row at a time and at its
\* end; every classified own contact appends a row and nothing else does;
\* and the gating decisions are functions of the other tables: a join
\* request is auto-approved, and /start says AlreadyVerified, exactly for an
\* unbanned verified account, and a batch holds exactly the accounts the
\* query selects from reminder_notifications and verified_users.
C26_AttemptsAppendOnly ==
    /\ [][verification_attempts' = verification_attempts \/ (Len(verification_attempts') = Len(verification_attempts) + 1 /\ SubSeq(verification_attempts', 1, Len(verification_attempts)) = verification_attempts)]_vars
    /\ [][OwnContact' <=> Len(verification_attempts') = Len(verification_attempts) + 1]_vars
    /\ []((reply.op = "join_request" /\ reply.decision # "Skipped") => (reply.decision = "AutoApprove" <=> GoodIdentity(reply.user)))
    /\ [](reply.op = "start" => (reply.decision = "AlreadyVerified" <=> GoodIdentity(reply.user)))
    /\ [][(reply'.op = "sweep" /\ reply'.decision = "Batch") => BatchUsers(incomplete_users') = SelectedUsers(reminder_notifications, verified_users, clock)]_vars

\* a verified account's later contact just failed: the success row is
\* still first, the failure row follows it
C26_Witness == OwnContact /\ Len(verification_attempts) = 2 /\ verification_attempts[1].success /\ ~verification_attempts[2].success /\ verification_attempts[1].user_id = verification_attempts[2].user_id

\* the handlers that touch the sender's activity
Interactions == {"join_request", "start", "help", "stats", "pause_reminders", "contact"}

\* C27 as claimed: every interaction the bot handles sets the sender's
\* last_activity_date to the time of the call, and the sweep query selects
\* no account within 24 hours of its last activity.
C27_ActivityThrottles ==
    /\ [][(reply'.op \in Interactions /\ reply'.decision # "Skipped") => reminder_notifications'[reply'.user].last_activity_date = clock + tz]_vars
    /\ [](\A u \in SelectedUsers(reminder_notifications, verified_users, clock) : Elapsed(reminder_notifications[u].last_activity_date) >= Day)

\* a call of verify_phone_number has returned
Classified == reply.op = "verify_phone_number"

\* the normalisation as claimed, on the string without spaces and hyphens
ClaimedNormalize(c) ==
    IF StartsWith(c, <<"0", "9">>) THEN Plus63 \o Tail1(c)
    ELSE IF StartsWith(c, <<"9">>) /\ Len(c) = 10 THEN Plus63 \o c
    ELSE IF StartsWith(c, <<"6", "3">>) THEN <<"+">> \o c
    ELSE IF ~StartsWith(c, <<"+">>) /\ Len(c) = 10 THEN Plus63 \o (IF StartsWith(c, <<"0">>) THEN Tail1(c) ELSE c)
    ELSE c

\* C28: the string handed to the parser is the input without spaces and
\* hyphens, rewritten by the first branch that applies: 09... has its 0
\* replaced by +63; else 9... of length 10 gets +63 in front; else 63...
\* gets + in front; else a string of length 10 without a leading + gets
\* +63 in front, a leading 0 dropped first; else it is left as it is.  A
\* string the first branch takes is never handled by a later one.
C28_NormalizeBranches ==
    /\ [](Classified => reply.cleaned_number = ClaimedNormalize(Cleaned(reply.phone)))
    /\ []((Classified /\ StartsWith(Cleaned(reply.phone), <<"0", "9">>)) => reply.cleaned_number = Plus63 \o Tail1(Cleaned(reply.phone)))

\* a string of length 10 that starts with 63 went through the 63 branch,
\* not through the length-10 branch that also fits it
C28_Witness == Classified /\ StartsWith(Cleaned(reply.phone), <<"6", "3">>) /\ Len(Cleaned(reply.phone)) = 10 /\ reply.cleaned_number = <<"+">> \o Cleaned(reply.phone) /\ Len(reply.phone) > 10

\* C29: an input that starts with + once spaces and hyphens are removed is
\* handed to the parser as that string, unchanged; a +1 number is never
\* turned into a +63 number.
C29_InternationalUntouched ==
    /\ []((Classified /\ StartsWith(Cleaned(reply.phone), <<"+">>)) => reply.cleaned_number = Cleaned(reply.phone))
    /\ []((Classified /\ StartsWith(Cleaned(reply.phone), <<"+", "1">>)) => (~StartsWith(reply.cleaned_number, Plus63) /\ reply.result.country_code # <<"6", "3">>))

\* a +1 number whose cleaned string has length 10, the length the last
\* branch looks for, was handed over unchanged
C29_Witness == Classified /\ StartsWith(Cleaned(reply.phone), <<"+", "1">>) /\ Len(Cleaned(reply.phone)) = 10 /\ reply.cleaned_number = Cleaned(reply.phone)

\* C30: is_filipino is true exactly when the string handed to the parser
\* parses, its region is PH, its calling code is 63 and the number is
\* valid; a number with calling code 63 that is not valid, or whose region
\* is not PH, is not a match.
C30_MatchIffPhAndValid ==
    /\ [](Classified => (reply.result.is_filipino <=> (/\ ParseOk(reply.cleaned_number)
                                                        /\ region_code_for_number(Parse(reply.cleaned_number)) = "PH"
                                                        /\ Parse(reply.cleaned_number).country_code = <<"6", "3">>
                                                        /\ is_valid_number(Parse(reply.cleaned_number)))))
    /\ []((Classified /\ reply.result.country_code = <<"6", "3">> /\ (~reply.result.is_valid \/ reply.result.region # "PH")) => ~reply.result.is_filipino)

\* a number that parsed with calling code 63 and region PH but is not a
\* valid number was not taken for a match
C30_Witness == Classified /\ reply.result.country_code = <<"6", "3">> /\ reply.result.region = "PH" /\ ~reply.result.is_valid /\ ~reply.result.is_filipino

\* the dict of the except branch for a given argument
NoMatch(phone_number) == [is_filipino |-> FALSE, country_code |-> <<>>, region |-> "None", formatted_number |-> phone_number, is_valid |-> FALSE]

\* C31: when the string handed to the parser does not parse, the result is
\* is_filipino false, country_code None, region None, is_valid false, and
\* formatted_number is the argument exactly as it was passed in, spaces,
\* hyphens and original prefix included.
C31_FailureEchoesRaw == []((Classified /\ ~ParseOk(reply.cleaned_number)) => reply.result = NoMatch(reply.phone))

\* an argument with a space in it that a branch rewrote and that still
\* failed to parse came back as it was passed in
C31_Witness == Classified /\ ~ParseOk(reply.cleaned_number) /\ Cleaned(reply.phone) # reply.phone /\ reply.cleaned_number # Cleaned(reply.phone) /\ reply.result.formatted_number = reply.phone

\* C32: verify_phone_number raises for no argument: every call returns, and
\* a call in which a step failed returns the no-match value (is_filipino
\* false, is_valid false, no country code, no region).
C32_NeverRaises ==
    /\ [](Classified => reply.raised = "none")
    /\ []((Classified /\ ParseRaises(reply.cleaned_number) # "none") => (~reply.result.is_filipino /\ ~reply.result.is_valid /\ reply.result.country_code = <<>> /\ reply.result.region = "None"))
    /\ [][reply.op = "call" => Classified']_vars

\* the call for a text that is no number at all raised inside and returned
\* the no-match value
C32_Witness == Classified /\ reply.phone = NotANumber /\ ParseRaises(reply.cleaned_number) = "NumberParseException" /\ reply.raised = "none" /\ ~reply.result.is_filipino

VerifiedByContact == reply.op = "contact" /\ reply.decision = "VerifiedSuccess"

\* C34: a successful contact verification leaves join_requests as it was:
\* the sender's pending requests are still pending; and a record becomes
\* approved only in the step that handles a join request for its own
\* account and chat.
C34_VerificationKeepsRequests ==
    /\ [][VerifiedByContact' => join_requests' = join_requests]_vars
    /\ [][\A k \in DOMAIN join_requests' : (join_requests'[k].status = "approved" /\ (k \notin DOMAIN join_requests \/ join_requests[k].status # "approved")) => (reply'.op = "join_request" /\ reply'.user = k[1] /\ reply'.arg = k[2])]_vars

\* the sender was just verified while a join request of theirs is pending
C34_Witness == VerifiedByContact /\ GoodIdentity(reply.user) /\ \E k \in DOMAIN join_requests : k[1] = reply.user /\ join_requests[k].status = "pending"

\* the four tables are as they were
TablesKept == verified_users' = verified_users /\ join_requests' = join_requests /\ reminder_notifications' = reminder_notifications /\ verification_attempts' = verification_attempts

\* C35: the ban of an id that has no verified_users row writes no row and
\* changes no table; every row of verified_users, banned or not, comes from
\* a verification (it holds a +63 number); and an own contact that
\* verifies leaves the sender verified and not banned.
C35_BanWithoutRow ==
    /\ [][(reply'.op = "ban_user" /\ reply'.decision = "Banned" /\ reply'.arg \notin DOMAIN verified_users) => TablesKept]_vars
    /\ [](\A u \in DOMAIN verified_users : StartsWith(verified_users[u].phone_number, Plus63))
    /\ [](VerifiedByContact => (GoodIdentity(reply.user) /\ verified_users[reply.user].verified_date = clock + tz))

\* the admin just banned an id that has no row: there is still none
C35_Witness == reply.op = "ban_user" /\ reply.decision = "Banned" /\ reply.user = ADMIN_ID /\ reply.arg \notin DOMAIN verified_users /\ ~Banned(reply.arg)

\* C36: a /ban_user from anyone but the admin changes no table, a
\* /ban_user naming the admin changes no table, and is_banned turns true
\* only in the step in which the admin's /ban_user names that account.
C36_OnlyAdminBans ==
    /\ [][(reply'.op = "ban_user" /\ reply'.user # ADMIN_ID) => (TablesKept /\ reply'.decision = "AdminOnly")]_vars
    /\ [][(reply'.op = "ban_user" /\ reply'.arg = ADMIN_ID) => (TablesKept /\ reply'.decision = "CannotBanAdmin")]_vars
    /\ [][\A u \in DOMAIN verified_users' : (verified_users'[u].is_banned /\ ~Banned(u)) => (reply'.op = "ban_user" /\ reply'.user = ADMIN_ID /\ reply'.arg = u /\ reply'.decision = "Banned")]_vars

\* a verified member just sent /ban_user and was turned away
C36_Witness == reply.op = "ban_user" /\ reply.user # ADMIN_ID /\ reply.decision = "AdminOnly" /\ GoodIdentity(reply.user)

\* C37: a join request from a bot account or from the admin is skipped:
\* no table changes (no join_requests record, no reminder_notifications row
\* written or touched), the running batch is left alone, and the handler
\* takes the branch that approves nothing and sends nothing.
C37_BotAndAdminSkipped == [][(reply'.op = "join_request" /\ (reply'.user \in BotAccounts \/ reply'.user = ADMIN_ID)) => (TablesKept /\ incomplete_users' = incomplete_users /\ reply'.decision = "Skipped" /\ ~reply'.is_first_time)]_vars

\* the admin, who has a reminder row, just asked to join: the row is as
\* old as before and no request is on file
C37_Witness == reply.op = "join_request" /\ reply.user = ADMIN_ID /\ reply.decision = "Skipped" /\ ADMIN_ID \in DOMAIN reminder_notifications /\ reminder_notifications[ADMIN_ID].last_activity_date < 0 /\ ~HasRequested(join_requests, ADMIN_ID)

\* the handlers that do nothing to reminder_notifications but touch the
\* sender's activity
TouchOnly == {"help", "stats", "contact"}

\* C38: touching the activity of an account that has a row changes only the
\* row's last_activity_date; for an account without a row it writes one with
\* reminder_count 0, verification_started false and reminder_paused false;
\* no other row changes.
C38_TouchKeepsColumns ==
    [][reply'.op \in TouchOnly => (/\ OtherRowsKept(reply'.user)
                                   /\ DOMAIN reminder_notifications' = DOMAIN reminder_notifications \cup {reply'.user}
                                   /\ reminder_notifications'[reply'.user].last_activity_date = clock + tz
                                   /\ IF reply'.user \in DOMAIN reminder_notifications
                                      THEN reminder_notifications' = [reminder_notifications EXCEPT ![reply'.user].last_activity_date = clock + tz]
                                      ELSE (/\ reminder_notifications'[reply'.user].reminder_count = 0
                                            /\ ~reminder_notifications'[reply'.user].verification_started
                                            /\ ~reminder_notifications'[reply'.user].reminder_paused))]_vars

\* /help was just answered to an account that had started the verification
\* and paused its reminders earlier: both flags and the older dates are kept
C38_Witness == reply.op = "help" /\ reply.user \in DOMAIN reminder_notifications /\ reminder_notifications[reply.user].verification_started /\ reminder_notifications[reply.user].reminder_paused /\ reminder_notifications[reply.user].last_activity_date = clock + tz /\ reminder_notifications[reply.user].last_reminder_date < clock + tz /\ reminder_notifications[reply.user].first_reminder_date < clock + tz

====
